---- MODULE Spec2Model ----
(***************************************************************************)
(* Model of server.js: an express application with four routes over the    *)
(* mongoose model Book (GET/POST /books, PUT/DELETE /books/:id) and one    *)
(* route, GET /news, that forwards a search to newsapi.org.                *)
(*                                                                         *)
(* Every handler is an async function.  Its synchronous prefix (up to the  *)
(* first await) runs in one event-loop turn and is one action (...Request);*)
(* the awaited store or upstream call together with the handler's          *)
(* continuation, which touches nothing but its own response, is a second   *)
(* action (...Complete).  Requests of different clients interleave between *)
(* the two.                                                                *)
(***************************************************************************)
EXTENDS Integers, Sequences, FiniteSets, TLC

\* ------------------------------------------------------------------ bounds
MaxReq == 2          \* requests received in one behaviour
MaxArticles == 2     \* length of the upstream article list

Clients == {"c1", "c2"}   \* each client has at most one request outstanding

\* ------------------------------------------------------- JSON body values
\* A value of a JSON request body, tagged with its JavaScript type.
Undef == [k |-> "undefined", s |-> "", n |-> 0]
Str(x) == [k |-> "string", s |-> x, n |-> 0]
Num(x) == [k |-> "number", s |-> "", n |-> x]

Fields == {"title", "author", "year", "genre"}

\* JavaScript's !v for the values above: undefined, "" and 0 are falsy.
Falsy(v) ==
    \/ v.k = "undefined"
    \/ v.k = "string" /\ v.s = ""
    \/ v.k = "number" /\ v.n = 0

\* The mutant: the presence check forgets genre.
MissingFieldNoGenre(body) ==
    Falsy(body.title) \/ Falsy(body.author) \/ Falsy(body.year)

\* if (!title || !author || !year || !genre)
MissingField(body) ==
    Falsy(body.title) \/ Falsy(body.author) \/ Falsy(body.year) \/ Falsy(body.genre)

\* ----------------------------------------------------- bookSchema casting
\* Decimal text of the numbers of the model, and the numbers its texts denote.
NumToStr(n) == CASE n = 0 -> "0" [] n = 5 -> "5" [] n = 1965 -> "1965"
                 [] n = 1813 -> "1813" [] OTHER -> "NaN"
IsNumeric(s) == s \in {"0", "5", "1965", "1813"}
StrToNum(s) == CASE s = "0" -> 0 [] s = "5" -> 5 [] s = "1965" -> 1965
                 [] s = "1813" -> 1813 [] OTHER -> 0

\* { type: String }: a number is stored as its decimal text.
CastString(v) == IF v.k = "number" THEN NumToStr(v.n) ELSE v.s
\* { type: Number }: a numeric text is stored as the number; other text fails.
CanCastNumber(v) == v.k = "number" \/ (v.k = "string" /\ IsNumeric(v.s))
CastNumber(v) == IF v.k = "number" THEN v.n ELSE StrToNum(v.s)

\* { required: true } after the cast.
SchemaAccepts(body) ==
    /\ \A f \in Fields : body[f].k # "undefined"
    /\ CanCastNumber(body.year)
    /\ CastString(body.title) # "" /\ CastString(body.author) # ""
    /\ CastString(body.genre) # ""

\* The four fields of a document, as bookSchema stores them.
CastDoc(body) ==
    [title |-> CastString(body.title), author |-> CastString(body.author),
     year |-> CastNumber(body.year), genre |-> CastString(body.genre)]

\* A path parameter is the text of an ObjectId (a positive number here) or
\* text that is no ObjectId (0).
IsObjectId(id) == id > 0

\* ------------------------------------------------------------- the store
\* The books collection: a function from the ObjectIds in it to documents.
Put(st, id, doc) == [i \in DOMAIN st \cup {id} |-> IF i = id THEN doc ELSE st[i]]
Remove(st, id) == [i \in DOMAIN st \ {id} |-> st[i]]

\* The document a handler gets back: the stored fields and _id.
Doc(id, d) == [id |-> id, title |-> d.title, author |-> d.author,
               year |-> d.year, genre |-> d.genre]
NoDoc == Doc(0, CastDoc([f \in Fields |-> Undef]))

\* What a store call gives its handler: err (the promise rejects), found (the
\* resolved value is a document, not null), doc, and the collection afterwards.
Result(err, found, doc, st) == [err |-> err, found |-> found, doc |-> doc, store |-> st]

\* newBook.save(): validates against bookSchema, then inserts.
save(st, id, body) ==
    IF ~SchemaAccepts(body) THEN Result(TRUE, FALSE, NoDoc, st)
    ELSE Result(FALSE, TRUE, Doc(id, CastDoc(body)), Put(st, id, CastDoc(body)))

\* The mutant: { new: true } is left out, so the document before the update
\* is returned.
findByIdAndUpdateOld(st, id, body) ==
    IF ~IsObjectId(id) \/ ~CanCastNumber(body.year) THEN Result(TRUE, FALSE, NoDoc, st)
    ELSE IF id \in DOMAIN st
         THEN Result(FALSE, TRUE, Doc(id, st[id]), Put(st, id, CastDoc(body)))
         ELSE Result(FALSE, FALSE, NoDoc, st)

\* The mutant: { upsert: true } is passed, so a missing record is inserted.
findByIdAndUpsert(st, id, body) ==
    IF ~IsObjectId(id) \/ ~CanCastNumber(body.year) THEN Result(TRUE, FALSE, NoDoc, st)
    ELSE Result(FALSE, TRUE, Doc(id, CastDoc(body)), Put(st, id, CastDoc(body)))

\* Book.findByIdAndUpdate(id, {title, author, year, genre}, {new: true}): casts
\* the id and the update, then replaces the fields of the match in one step.
findByIdAndUpdate(st, id, body) ==
    IF ~IsObjectId(id) \/ ~CanCastNumber(body.year) THEN Result(TRUE, FALSE, NoDoc, st)
    ELSE IF id \in DOMAIN st
         THEN Result(FALSE, TRUE, Doc(id, CastDoc(body)), Put(st, id, CastDoc(body)))
         ELSE Result(FALSE, FALSE, NoDoc, st)

\* The mutant: findById is called, so the record is found and left in place.
findByIdOnly(st, id) ==
    IF ~IsObjectId(id) THEN Result(TRUE, FALSE, NoDoc, st)
    ELSE IF id \in DOMAIN st
         THEN Result(FALSE, TRUE, Doc(id, st[id]), st)
         ELSE Result(FALSE, FALSE, NoDoc, st)

\* Book.findByIdAndDelete(id): casts the id, then removes the match in one step.
findByIdAndDelete(st, id) ==
    IF ~IsObjectId(id) THEN Result(TRUE, FALSE, NoDoc, st)
    ELSE IF id \in DOMAIN st
         THEN Result(FALSE, TRUE, Doc(id, st[id]), Remove(st, id))
         ELSE Result(FALSE, FALSE, NoDoc, st)

\* Book.find(): every document of the collection.
find(st) == Result(FALSE, TRUE, NoDoc, st)

\* ------------------------------------------------------------- responses
\* A response body as the client decodes it: a JSON object, array or string.
NoResp == [type |-> "none", val |-> <<>>]
Message(m) == [type |-> "object", val |-> [message |-> m]]
ErrorBody(m) == [type |-> "object", val |-> [error |-> m]]
BookBody(doc) == [type |-> "object", val |-> doc]
ListBody(st) == [type |-> "array", val |-> st]

\* What a handler has done with its response when it returns: the status and
\* body sent, how many times it sent one, and whether an error left it uncaught.
Outcome(status, resp) == [status |-> status, resp |-> resp, sent |-> 1, escaped |-> FALSE]
Uncaught == [status |-> 0, resp |-> NoResp, sent |-> 0, escaped |-> TRUE]

ServerError == Outcome(500, Message("Server error"))
AllFieldsRequired == Outcome(400, Message("All fields are required"))
BookNotFound == Outcome(404, Message("Book not found"))

\* ------------------------------------------- the handlers' continuations
\* try { const books = await Book.find(); res.status(200).json(books) } catch ...
GetBooksHandler(r) ==
    IF r.err THEN ServerError ELSE Outcome(200, ListBody(r.store))

\* try { ... await newBook.save(); res.status(201).json(newBook) } catch ...
PostBooksHandler(r) ==
    IF r.err THEN ServerError ELSE Outcome(201, BookBody(r.doc))

\* try { const book = await Book.findByIdAndUpdate(...); if (!book) 404; 200 } catch ...
PutBookHandler(r) ==
    IF r.err THEN ServerError
    ELSE IF ~r.found THEN BookNotFound
    ELSE Outcome(200, BookBody(r.doc))

\* try { const book = await Book.findByIdAndDelete(id); if (!book) 404; 200 } catch ...
DeleteBookHandler(r) ==
    IF r.err THEN ServerError
    ELSE IF ~r.found THEN BookNotFound
    ELSE Outcome(200, Message("Book deleted successfully"))

\* ---------------------------------------------------------------- /news
\* The text of a URL is a sequence of tokens: the separators "=", "&" and "#",
\* the parameter names, and plain text.  A filter of req.query is absent or
\* such a text (express has already percent-decoded it).
NoFilter == [def |-> FALSE, txt |-> <<>>]
Filter(t) == [def |-> TRUE, txt |-> t]

NEWS_API_KEY == "KEY"

\* JavaScript's truthiness of a query parameter: absent and "" are falsy.
Given(v) == v.def /\ v.txt # <<>>

\* ${v ? `name=${v}&` : ''}
Part(name, v) == IF Given(v) THEN <<name, "=">> \o v.txt \o <<"&">> ELSE <<>>

\* The query string of apiUrl (what follows top-headlines?).
apiUrl(f) ==
    Part("q", f.query) \o Part("category", f.category) \o Part("country", f.country)
        \o <<"apiKey", "=", NEWS_API_KEY>>

\* The tokens of t before the first occurrence of sep (all of t without one).
RECURSIVE UpTo(_, _)
UpTo(t, sep) ==
    IF t = <<>> \/ Head(t) = sep THEN <<>> ELSE <<Head(t)>> \o UpTo(Tail(t), sep)

\* The parts of t between the "&" separators.
RECURSIVE Segments(_)
Segments(t) ==
    LET h == UpTo(t, "&") IN
    IF Len(h) = Len(t) THEN {h}
    ELSE {h} \cup Segments(SubSeq(t, Len(h) + 2, Len(t)))

\* fetch(apiUrl): the request that goes out carries the query string without
\* its fragment; the names of its parameters are what precedes "=" in each part.
ParamNames(url) == {UpTo(seg, "=") : seg \in Segments(UpTo(url, "#"))}
Carries(url, name) == <<name>> \in ParamNames(url)

\* An upstream article: the five fields the gateway keeps, and others.
Article(t, src) ==
    [title |-> t, description |-> "d-" \o t, source |-> src,
     url |-> "u-" \o t, publishedAt |-> "p-" \o t,
     author |-> "a-" \o t, content |-> "c-" \o t]
Source(n) == [null |-> FALSE, id |-> "id-" \o n, name |-> n]
NullSource == [null |-> TRUE, id |-> "", name |-> ""]
Articles == {Article("t1", Source("BBC")), Article("t2", Source("CNN")),
             Article("t3", NullSource)}

\* article => ({title, description, source: article.source.name, url, publishedAt})
Shape(a) ==
    [title |-> a.title, description |-> a.description, source |-> a.source.name,
     url |-> a.url, publishedAt |-> a.publishedAt]

\* data.articles.map(...)
MapShape(as) == [i \in 1..Len(as) |-> Shape(as[i])]

\* What fetch and response.json() give the handler.  net: fetch resolved or
\* rejected; ok: response.ok; json: the body is not JSON ("invalid"), JSON
\* without an articles array ("other"), or JSON with one ("articles").
Reply(net, ok, json, as, total) ==
    [net |-> net, ok |-> ok, json |-> json, articles |-> as, totalResults |-> total]
NoReply == Reply("none", FALSE, "invalid", <<>>, 0)

\* JSON.stringify(v, null, 2): the JSON text of v, a string.
JSONstringify(v) == [type |-> "string", val |-> v]

NewsError == Outcome(500, ErrorBody("Error fetching news. Try again later."))

\* The mutant: the articles are sent on whatever response.ok says.
NewsHandlerIgnoresOk(rep) ==
    IF rep.net = "error" \/ rep.json # "articles" THEN NewsError
    ELSE IF \E i \in 1..Len(rep.articles) : rep.articles[i].source.null THEN NewsError
    ELSE Outcome(200, JSONstringify([totalResults |-> rep.totalResults,
                                      articles |-> MapShape(rep.articles)]))

\* The mutant: response.json() is awaited outside the try block.
NewsHandlerJsonOutsideTry(rep) ==
    IF rep.net = "error" THEN NewsError
    ELSE IF rep.json = "invalid" THEN Uncaught
    ELSE IF ~rep.ok \/ rep.json = "other" THEN NewsError
    ELSE IF \E i \in 1..Len(rep.articles) : rep.articles[i].source.null THEN NewsError
    ELSE Outcome(200, JSONstringify([totalResults |-> rep.totalResults,
                                      articles |-> MapShape(rep.articles)]))

\* try { response = await fetch(apiUrl); data = await response.json();
\*       if (response.ok) { map; res.json(JSON.stringify(...)) } else 500 } catch 500
\* A rejected fetch, a body that is not JSON, a missing articles array and an
\* article whose source is null all throw inside the try block.
NewsHandler(rep) ==
    IF rep.net = "error" THEN NewsError
    ELSE IF rep.json = "invalid" THEN NewsError
    ELSE IF ~rep.ok THEN NewsError
    ELSE IF rep.json = "other" THEN NewsError
    ELSE IF \E i \in 1..Len(rep.articles) : rep.articles[i].source.null THEN NewsError
    ELSE Outcome(200, JSONstringify([totalResults |-> rep.totalResults,
                                      articles |-> MapShape(rep.articles)]))

\* ---------------------------------------------------------------- inputs
Dune == [title |-> Str("Dune"), author |-> Str("Herbert"),
         year |-> Num(1965), genre |-> Str("SciFi")]
Emma == [title |-> Str("Emma"), author |-> Str("Austen"),
         year |-> Num(1813), genre |-> Str("Novel")]
NoBody == [f \in Fields |-> Undef]

\* Other values a client may put in a field: nothing, the empty text, zero,
\* a number where text is expected, text where a number is expected.
OddValues(f) ==
    IF f = "year" THEN {Undef, Num(0), Str("1965"), Str("soon")}
    ELSE IF f = "title" THEN {Undef, Str(""), Num(5)}
    ELSE {Undef}

\* The request bodies: a well-formed one, and the same with one field changed.
Bodies == {Dune}
            \cup UNION {{[Dune EXCEPT ![f] = v] : v \in OddValues(f)} : f \in Fields}

\* The filter texts: empty, plain, with a fragment mark, with a parameter in it.
Texts == {<<>>, <<"x">>, <<"x", "#">>, <<"x", "&", "country", "=", "us">>}
FilterValues == {NoFilter} \cup {Filter(t) : t \in Texts}
Filters == [query : FilterValues, category : FilterValues, country : FilterValues]
NoFilters == [query |-> NoFilter, category |-> NoFilter, country |-> NoFilter]
FewFilters == {NoFilters, [NoFilters EXCEPT !.query = Filter(<<"x">>)]}

ArticleLists == UNION {[1..n -> Articles] : n \in 0..MaxArticles}
Replies ==
    {Reply("error", FALSE, "invalid", <<>>, 0)}
      \cup {Reply("ok", ok, j, <<>>, 0) : ok \in BOOLEAN, j \in {"invalid", "other"}}
      \cup {Reply("ok", ok, "articles", as, Len(as) + extra) :
                ok \in BOOLEAN, as \in ArticleLists, extra \in {0, 10}}
\* One reply for each way the handler can end.
FewReplies ==
    {Reply("error", FALSE, "invalid", <<>>, 0),
     Reply("ok", TRUE, "invalid", <<>>, 0),
     Reply("ok", TRUE, "other", <<>>, 0),
     Reply("ok", FALSE, "articles", <<Article("t1", Source("BBC"))>>, 1),
     Reply("ok", TRUE, "articles", <<Article("t3", NullSource)>>, 1),
     Reply("ok", TRUE, "articles", <<Article("t1", Source("BBC"))>>, 1)}

\* ----------------------------------------------------------------- state
VARIABLES
    store,     \* the books collection
    reqs,      \* each client's request: in flight, answered, or none yet
    nreq,      \* requests received so far
    nextId,    \* the next ObjectId a new Book gets
    clock,     \* history: store calls executed so far
    mods       \* history: for each id, the clock values of its updates and deletes

vars == <<store, reqs, nreq, nextId, clock, mods>>

\* A request and what has become of it.  calls, fetches: store and upstream
\* calls issued for it.  arr: the clock when it was received.  at, fault, present, wrote:
\* history of its store call (when it ran, whether the store failed it, whether
\* the id was in the collection, whether the collection changed).
NoReq ==
    [route |-> "none", phase |-> "idle", id |-> 0, body |-> NoBody,
     filters |-> NoFilters, url |-> <<>>, newId |-> 0, calls |-> 0, fetches |-> 0,
     arr |-> 0, at |-> 0, fault |-> FALSE, present |-> FALSE, wrote |-> FALSE, reply |-> NoReply,
     status |-> 0, resp |-> NoResp, sent |-> 0, escaped |-> FALSE]

\* The collection outlives the process: it holds a book when the server starts.
InitialBooks == <<CastDoc(Emma)>>

\* The ObjectIds of one behaviour: those of the initial books, one for each
\* request, and one that is never handed out.
Ids == 1..(Len(InitialBooks) + MaxReq + 1)

\* The ids a client may put in a path: text that is no ObjectId, an ObjectId
\* handed out so far, or one that was not.
PathIds == 0..nextId

Init ==
    /\ store = InitialBooks
    /\ reqs = [c \in Clients |-> NoReq]
    /\ nreq = 0
    /\ nextId = Len(InitialBooks) + 1
    /\ clock = 0
    /\ mods = [i \in Ids |-> {}]

\* Client c can send a request: it has none outstanding.
CanSend(c) == reqs[c].phase # "await" /\ nreq < MaxReq

\* A request of the given route, received now.
Received(route) == [NoReq EXCEPT !.route = route, !.arr = clock]

\* The request is answered (or abandoned to an uncaught error) with outcome out.
Answered(req, out) ==
    [req EXCEPT !.phase = "done", !.status = out.status, !.resp = out.resp,
                !.sent = @ + out.sent, !.escaped = out.escaped]

\* The store fails a call (connection loss, timeout): the promise rejects and
\* the collection is as it was.
StoreCall(fault, r, st) == IF fault THEN Result(TRUE, FALSE, NoDoc, st) ELSE r

\* ---------------------------------------------------------------- actions
\* app.get('/books'): Book.find() is issued.
GetBooksRequest(c) ==
    /\ CanSend(c)
    /\ reqs' = [reqs EXCEPT ![c] =
                  [Received("GET /books") EXCEPT !.phase = "await", !.calls = 1]]
    /\ nreq' = nreq + 1
    /\ UNCHANGED <<store, nextId, clock, mods>>

\* app.post('/books'): 400 on a missing field; otherwise new Book(...), which
\* assigns _id, and save() is issued.
PostBooksRequest(c, body) ==
    /\ CanSend(c)
    /\ nreq' = nreq + 1
    /\ IF MissingField(body)
       THEN /\ reqs' = [reqs EXCEPT ![c] =
                          Answered([Received("POST /books") EXCEPT !.body = body],
                                   AllFieldsRequired)]
            /\ UNCHANGED nextId
       ELSE /\ reqs' = [reqs EXCEPT ![c] =
                          [Received("POST /books") EXCEPT !.body = body,
                                        !.phase = "await", !.newId = nextId, !.calls = 1]]
            /\ nextId' = nextId + 1
    /\ UNCHANGED <<store, clock, mods>>

\* app.put('/books/:id'): 400 on a missing field; otherwise findByIdAndUpdate
\* is issued.
PutBookRequest(c, id, body) ==
    /\ CanSend(c)
    /\ nreq' = nreq + 1
    /\ reqs' = [reqs EXCEPT ![c] =
                  LET req == [Received("PUT /books/:id") EXCEPT !.id = id,
                                           !.body = body]
                  IN IF MissingField(body) THEN Answered(req, AllFieldsRequired)
                     ELSE [req EXCEPT !.phase = "await", !.calls = 1]]
    /\ UNCHANGED <<store, nextId, clock, mods>>

\* app.delete('/books/:id'): findByIdAndDelete is issued.
DeleteBookRequest(c, id) ==
    /\ CanSend(c)
    /\ nreq' = nreq + 1
    /\ reqs' = [reqs EXCEPT ![c] =
                  [Received("DELETE /books/:id") EXCEPT !.id = id,
                                !.phase = "await", !.calls = 1]]
    /\ UNCHANGED <<store, nextId, clock, mods>>

\* app.get('/news'): apiUrl is built and fetch(apiUrl) is issued.
NewsRequest(c, f) ==
    /\ CanSend(c)
    /\ nreq' = nreq + 1
    /\ reqs' = [reqs EXCEPT ![c] =
                  [Received("GET /news") EXCEPT !.filters = f, !.url = apiUrl(f),
                                !.phase = "await", !.fetches = 1]]
    /\ UNCHANGED <<store, nextId, clock, mods>>

\* The store executes the call of c's request, with result r, and the handler's
\* continuation answers with out.
StoreStep(c, fault, r, out) ==
    /\ store' = r.store
    /\ clock' = clock + 1
    /\ reqs' = [reqs EXCEPT ![c] =
                  Answered([@ EXCEPT !.at = clock + 1, !.fault = fault,
                                     !.present = (reqs[c].id \in DOMAIN store),
                                     !.wrote = (r.store # store)], out)]
    /\ mods' = IF r.store # store /\ reqs[c].id \in DOMAIN mods
               THEN [mods EXCEPT ![reqs[c].id] = @ \cup {clock + 1}]
               ELSE mods
    /\ UNCHANGED <<nreq, nextId>>

Awaiting(c, route) == reqs[c].phase = "await" /\ reqs[c].route = route

GetBooksComplete(c, fault) ==
    /\ Awaiting(c, "GET /books")
    /\ LET r == StoreCall(fault, find(store), store)
       IN StoreStep(c, fault, r, GetBooksHandler(r))

PostBooksComplete(c, fault) ==
    /\ Awaiting(c, "POST /books")
    /\ LET r == StoreCall(fault, save(store, reqs[c].newId, reqs[c].body), store)
       IN StoreStep(c, fault, r, PostBooksHandler(r))

PutBookComplete(c, fault) ==
    /\ Awaiting(c, "PUT /books/:id")
    /\ LET r == StoreCall(fault, findByIdAndUpdate(store, reqs[c].id, reqs[c].body), store)
       IN StoreStep(c, fault, r, PutBookHandler(r))

DeleteBookComplete(c, fault) ==
    /\ Awaiting(c, "DELETE /books/:id")
    /\ LET r == StoreCall(fault, findByIdAndDelete(store, reqs[c].id), store)
       IN StoreStep(c, fault, r, DeleteBookHandler(r))

\* The upstream provider replies (or the transport fails) and the handler's
\* continuation answers.
NewsComplete(c, rep) ==
    /\ Awaiting(c, "GET /news")
    /\ reqs' = [reqs EXCEPT ![c] = Answered([@ EXCEPT !.reply = rep], NewsHandler(rep))]
    /\ UNCHANGED <<store, nreq, nextId, clock, mods>>

Next ==
    \/ \E c \in Clients : GetBooksRequest(c)
    \/ \E c \in Clients, body \in Bodies : PostBooksRequest(c, body)
    \/ \E c \in Clients, id \in PathIds, body \in Bodies : PutBookRequest(c, id, body)
    \/ \E c \in Clients, id \in PathIds : DeleteBookRequest(c, id)
    \/ \E c \in Clients, f \in FewFilters : NewsRequest(c, f)
    \/ \E c \in Clients, fault \in BOOLEAN : GetBooksComplete(c, fault)
    \/ \E c \in Clients, fault \in BOOLEAN : PostBooksComplete(c, fault)
    \/ \E c \in Clients, fault \in BOOLEAN : PutBookComplete(c, fault)
    \/ \E c \in Clients, fault \in BOOLEAN : DeleteBookComplete(c, fault)
    \/ \E c \in Clients, rep \in FewReplies : NewsComplete(c, rep)

Spec == Init /\ [][Next]_vars

\* The news gateway on its own, with every filter and every reply.
NewsClient == "c1"
NextNews ==
    \/ \E f \in Filters : NewsRequest(NewsClient, f)
    \/ \E rep \in Replies : NewsComplete(NewsClient, rep)

SpecNews == Init /\ [][NextNews]_vars

\* ================================================================ claims
Done(c) == reqs[c].phase = "done"
IsRoute(c, route) == reqs[c].route = route

\* A field is present when it exists and is not the empty text.
Present(v) == v.k # "undefined" /\ ~(v.k = "string" /\ v.s = "")
Omitted(v) == v.k = "undefined"

\* The four fields of document d are the values of body b as they were submitted.
AsSubmitted(d, b) ==
    /\ b.title = Str(d.title) /\ b.author = Str(d.author)
    /\ b.year = Num(d.year) /\ b.genre = Str(d.genre)

\* C1: a POST /books whose body has all four fields present (and whose store
\* call the store did not fail) is answered 201 with the stored record and its
\* assigned id; a POST /books with one of the four omitted is answered 400 and
\* changes nothing in the store.
C1_CreateContract ==
    \A c \in Clients :
        Done(c) /\ IsRoute(c, "POST /books") =>
            /\ (\A f \in Fields : Present(reqs[c].body[f])) /\ ~reqs[c].fault =>
                   /\ reqs[c].status = 201
                   /\ IsObjectId(reqs[c].newId)
                   /\ reqs[c].resp = BookBody(Doc(reqs[c].newId, CastDoc(reqs[c].body)))
            /\ (\E f \in Fields : Omitted(reqs[c].body[f])) =>
                   reqs[c].status = 400 /\ ~reqs[c].wrote

\* C2: a PUT /books/{id} whose body passes the presence check, or a
\* DELETE /books/{id}, for an id that is not the id of a record in the store
\* when the store call runs (and whose store call the store did not fail), is
\* answered 404 and leaves the store unchanged.
C2_UnknownIdIs404 ==
    \A c \in Clients :
        /\ Done(c)
        /\ \/ IsRoute(c, "DELETE /books/:id")
           \/ IsRoute(c, "PUT /books/:id") /\ ~MissingField(reqs[c].body)
        /\ ~reqs[c].present /\ ~reqs[c].fault
        => reqs[c].status = 404 /\ ~reqs[c].wrote

\* The list a GET /books was answered with, and the times between lo and hi
\* at which the record of id was updated or deleted.
ListOf(g) == reqs[g].resp.val
NoModBetween(id, lo, hi) == ~\E t \in mods[id] : lo < t /\ t < hi

\* Request g is a GET /books answered 200 whose find() ran after the store call
\* of the answered request c.
LaterList(c, g) ==
    /\ Done(c) /\ Done(g) /\ IsRoute(g, "GET /books") /\ reqs[g].status = 200
    /\ reqs[c].at > 0 /\ reqs[g].at > reqs[c].at

\* C3 as stated: after a successful Create(b) a later GET /books includes a
\* record equal to b except for the id, until that id is updated or deleted;
\* after a successful Update(id, b2) a later GET /books shows b2's four fields
\* at that id; after a successful Delete(id) every later GET /books excludes it.
C3_RoundTripAsSubmitted ==
    \A c, g \in Clients :
        LaterList(c, g) =>
            /\ IsRoute(c, "POST /books") /\ reqs[c].status = 201
                 /\ NoModBetween(reqs[c].newId, reqs[c].at, reqs[g].at)
               => /\ reqs[c].newId \in DOMAIN ListOf(g)
                  /\ AsSubmitted(ListOf(g)[reqs[c].newId], reqs[c].body)
            /\ IsRoute(c, "PUT /books/:id") /\ reqs[c].status = 200
                 /\ NoModBetween(reqs[c].id, reqs[c].at, reqs[g].at)
               => /\ reqs[c].id \in DOMAIN ListOf(g)
                  /\ AsSubmitted(ListOf(g)[reqs[c].id], reqs[c].body)
            /\ IsRoute(c, "DELETE /books/:id") /\ reqs[c].status = 200
               => reqs[c].id \notin DOMAIN ListOf(g)

\* C3 as amended: the record a later GET /books shows after a successful Create
\* or Update holds the submitted fields as bookSchema casts them (title, author
\* and genre as text, year as a number); it is equal to the submitted body when
\* the body already has those types.  After a successful Delete(id) every later
\* GET /books excludes the id.
C3_RoundTrip ==
    \A c, g \in Clients :
        LaterList(c, g) =>
            /\ IsRoute(c, "POST /books") /\ reqs[c].status = 201
                 /\ NoModBetween(reqs[c].newId, reqs[c].at, reqs[g].at)
               => /\ reqs[c].newId \in DOMAIN ListOf(g)
                  /\ ListOf(g)[reqs[c].newId] = CastDoc(reqs[c].body)
            /\ IsRoute(c, "PUT /books/:id") /\ reqs[c].status = 200
                 /\ NoModBetween(reqs[c].id, reqs[c].at, reqs[g].at)
               => /\ reqs[c].id \in DOMAIN ListOf(g)
                  /\ ListOf(g)[reqs[c].id] = CastDoc(reqs[c].body)
            /\ IsRoute(c, "DELETE /books/:id") /\ reqs[c].status = 200
               => reqs[c].id \notin DOMAIN ListOf(g)

\* A book created with year "1965" is listed afterwards with year 1965.
C3_Witness ==
    \E c, g \in Clients :
        /\ LaterList(c, g)
        /\ IsRoute(c, "POST /books") /\ reqs[c].status = 201
        /\ reqs[c].body.year = Str("1965")
        /\ reqs[c].newId \in DOMAIN ListOf(g)
        /\ ListOf(g)[reqs[c].newId].year = 1965

\* C4: a POST /books or PUT /books/{id} with a missing or empty required field
\* is answered 400 and no store call is issued for it, whether or not the id of
\* the PUT is in the store.
C4_RejectedBeforeStore ==
    \A c \in Clients :
        /\ Done(c)
        /\ IsRoute(c, "POST /books") \/ IsRoute(c, "PUT /books/:id")
        /\ \E f \in Fields : ~Present(reqs[c].body[f])
        => /\ reqs[c].status = 400
           /\ reqs[c].calls = 0 /\ reqs[c].at = 0 /\ ~reqs[c].wrote
           /\ reqs[c].newId = 0

\* A PUT with an empty title for an id that is in the store is answered 400.
C4_Witness ==
    \E c \in Clients :
        /\ Done(c) /\ IsRoute(c, "PUT /books/:id")
        /\ reqs[c].id \in DOMAIN store
        /\ reqs[c].body.title = Str("")
        /\ reqs[c].status = 400 /\ reqs[c].calls = 0

\* The store call or the upstream call of c's request failed.
CallFailed(c) ==
    \/ reqs[c].fault
    \/ IsRoute(c, "GET /news")
         /\ \/ reqs[c].reply.net = "error"
            \/ reqs[c].reply.json # "articles"
            \/ ~reqs[c].reply.ok

\* C5: a request to any of the five routes, once its handler has run, has been
\* answered exactly once with a status among 200, 201, 400, 404 and 500 and no
\* error has left the handler; a failed store or upstream call is answered 500
\* with the fixed message; a request whose handler is waiting has no answer yet.
C5_AnsweredOnce ==
    \A c \in Clients :
        /\ Done(c) =>
              /\ reqs[c].sent = 1 /\ ~reqs[c].escaped
              /\ reqs[c].status \in {200, 201, 400, 404, 500}
              /\ CallFailed(c) =>
                    /\ reqs[c].status = 500
                    /\ reqs[c].resp =
                          IF IsRoute(c, "GET /news")
                          THEN ErrorBody("Error fetching news. Try again later.")
                          ELSE Message("Server error")
        /\ ~Done(c) => reqs[c].sent = 0

\* A store call failed by the store and an upstream reply that is not JSON
\* have both been answered 500.
C5_Witness ==
    \E c, d \in Clients :
        /\ Done(c) /\ reqs[c].fault /\ reqs[c].status = 500
        /\ Done(d) /\ IsRoute(d, "GET /news")
        /\ reqs[d].reply.net = "ok" /\ reqs[d].reply.json = "invalid"
        /\ reqs[d].status = 500 /\ reqs[d].sent = 1

\* C6: for every GET /news exactly one upstream request is sent, and it carries
\* the q, category and country parameter exactly when the caller supplied the
\* query, category and country filter, each independently of the other two.
C6_FiltersForwarded ==
    \A c \in Clients :
        IsRoute(c, "GET /news") =>
            /\ reqs[c].fetches = 1
            /\ Carries(reqs[c].url, "q") <=> Given(reqs[c].filters.query)
            /\ Carries(reqs[c].url, "category") <=> Given(reqs[c].filters.category)
            /\ Carries(reqs[c].url, "country") <=> Given(reqs[c].filters.country)

\* C7: when the upstream call fails (transport error or a response that is not
\* 2xx) the answer is 500 with the fixed error body, which holds nothing of the
\* upstream payload, and the upstream call was made once.
C7_UpstreamFailure ==
    \A c \in Clients :
        /\ Done(c) /\ IsRoute(c, "GET /news")
        /\ reqs[c].reply.net = "error" \/ ~reqs[c].reply.ok
        => /\ reqs[c].status = 500
           /\ reqs[c].resp = ErrorBody("Error fetching news. Try again later.")
           /\ reqs[c].fetches = 1 /\ reqs[c].sent = 1

\* A response that is not 2xx but carries articles has been answered 500.
C7_Witness ==
    \E c \in Clients :
        /\ Done(c) /\ IsRoute(c, "GET /news")
        /\ reqs[c].reply.net = "ok" /\ ~reqs[c].reply.ok
        /\ reqs[c].reply.json = "articles" /\ reqs[c].reply.articles # <<>>
        /\ reqs[c].status = 500

\* C8: on a successful upstream response with well-formed articles the answer
\* is an object {totalResults, articles} whose articles are as many as the
\* upstream ones, in their order, each with exactly the five fields title,
\* description, source (the display name), url and publishedAt.
C8_ShapedObject ==
    \A c \in Clients :
        /\ Done(c) /\ IsRoute(c, "GET /news")
        /\ reqs[c].reply.net = "ok" /\ reqs[c].reply.ok
        /\ reqs[c].reply.json = "articles"
        /\ \A i \in 1..Len(reqs[c].reply.articles) :
               ~reqs[c].reply.articles[i].source.null
        => /\ reqs[c].status = 200
           /\ reqs[c].resp.type = "object"
           /\ reqs[c].resp.val.totalResults = reqs[c].reply.totalResults
           /\ Len(reqs[c].resp.val.articles) = Len(reqs[c].reply.articles)
           /\ \A i \in 1..Len(reqs[c].reply.articles) :
                 LET a == reqs[c].reply.articles[i]
                     b == reqs[c].resp.val.articles[i]
                 IN /\ DOMAIN b = {"title", "description", "source", "url", "publishedAt"}
                    /\ b.title = a.title /\ b.description = a.description
                    /\ b.source = a.source.name /\ b.url = a.url
                    /\ b.publishedAt = a.publishedAt

\* The step in which the PUT of client c is answered 200.
PutSucceeds(c) ==
    /\ IsRoute(c, "PUT /books/:id") /\ reqs[c].phase = "await"
    /\ reqs'[c].phase = "done" /\ reqs'[c].status = 200

\* What a successful PUT leaves alone: the ids in the store and every other
\* record; and the record it returns is the one now stored under its id.
UpdateFrame(c) ==
    /\ reqs[c].id \in DOMAIN store
    /\ DOMAIN store' = DOMAIN store
    /\ \A j \in DOMAIN store \ {reqs[c].id} : store'[j] = store[j]
    /\ reqs'[c].resp = BookBody(Doc(reqs[c].id, store'[reqs[c].id]))

\* C9 as stated: a successful PUT replaces the four fields of the matching
\* record with the submitted values and returns the post-update record; the
\* record's id, every other record and the set of ids are unchanged.
C9_UpdateAsSubmitted ==
    [][\A c \in Clients :
          PutSucceeds(c) =>
              UpdateFrame(c) /\ AsSubmitted(store'[reqs[c].id], reqs[c].body)]_vars

\* C9 as amended: a successful PUT replaces the four fields of the matching
\* record with the submitted values as bookSchema casts them (title, author and
\* genre as text, year as a number) and returns the post-update record; the
\* record's id, every other record and the set of ids are unchanged.
C9_UpdateFrame ==
    [][\A c \in Clients :
          PutSucceeds(c) =>
              UpdateFrame(c) /\ store'[reqs[c].id] = CastDoc(reqs[c].body)]_vars

\* A PUT with year "1965" has replaced all four fields of the initial book.
C9_Witness ==
    \E c \in Clients :
        /\ Done(c) /\ IsRoute(c, "PUT /books/:id") /\ reqs[c].status = 200
        /\ reqs[c].wrote /\ reqs[c].body.year = Str("1965")
        /\ reqs[c].id \in DOMAIN store
        /\ store[reqs[c].id] = CastDoc(reqs[c].body)
        /\ reqs[c].resp = BookBody(Doc(reqs[c].id, CastDoc(reqs[c].body)))

\* C10: of two DELETE requests for the same id whose store calls both ran, the
\* id being in the store at the first, the first is answered 200 and the other
\* 404; of a PUT and a DELETE answered 200 for the same id, the PUT is answered
\* 200 only if its store call ran before the delete's, and the record is absent
\* afterwards.
C10_Linearizable ==
    \A c, d \in Clients :
        /\ c # d /\ Done(c) /\ Done(d)
        /\ ~reqs[c].fault /\ ~reqs[d].fault
        /\ reqs[c].id = reqs[d].id
        /\ reqs[c].at > 0 /\ reqs[d].at > 0
        /\ IsRoute(d, "DELETE /books/:id")
        => /\ IsRoute(c, "DELETE /books/:id") /\ reqs[c].at < reqs[d].at /\ reqs[c].present
              => reqs[c].status = 200 /\ reqs[d].status = 404
           /\ IsRoute(c, "PUT /books/:id") /\ reqs[d].status = 200
              => /\ reqs[c].status = 200 => reqs[c].at < reqs[d].at
                 /\ reqs[d].id \notin DOMAIN store

\* Two DELETE requests for the initial book were in flight together: the one
\* whose store call ran first got 200, the other 404.
C10_Witness ==
    \E c, d \in Clients :
        /\ c # d /\ Done(c) /\ Done(d)
        /\ IsRoute(c, "DELETE /books/:id") /\ IsRoute(d, "DELETE /books/:id")
        /\ reqs[c].id = reqs[d].id
        /\ reqs[d].arr < reqs[c].at /\ reqs[c].at < reqs[d].at
        /\ reqs[c].status = 200 /\ reqs[d].status = 404

====
